---- MODULE Spec2Model ----
(***************************************************************************)
(* QueryWalker: walkVertically and walkHorizontally                        *)
(* (src/src/Walker/WalkVertically.js).                                     *)
(*                                                                         *)
(* One behaviour is one call of one of the two walkers on one              *)
(* configuration object o.  The walker's code is cut at its suspension     *)
(* points (await, Promise.all); the scope's answers and the outcome of     *)
(* every handler and exception-handler invocation are chosen by the        *)
(* environment.                                                            *)
(***************************************************************************)
EXTENDS Integers, Sequences, FiniteSets, TLC

\* ---------------------------------------------------------------- bounds
\* most entries (elements and holes) the scope returns over one call
MaxEntries == 2
\* most keys other than _scope_ a configuration has
MaxKeys == 2

\* ------------------------------------------------------------ vocabulary
ScopeKey == "_scope_"
HandlerKey == "__exeptionHandler__"
SelectorKeys == {".a", ".b", HandlerKey}
Elements == {"e1", "e2"}
\* the elements of a plain scope, in document order
Elements1 == <<"e1", "e2", "e1", "e2">>
\* a falsy entry of a query result (null, undefined)
Hole == "null"
Values == {"v1", "v2"}
Undefined == "undefined"
\* what a handler may throw or reject with
Errors == {"ex1"}
\* what an exception handler may throw or reject with
HandlerErrors == {"ex2"}
TypeError == "TypeError"
NoError == "none"

RECURSIVE SeqsUpTo(_, _)
\* all sequences over S of length at most n
SeqsUpTo(S, n) ==
  IF n = 0 THEN {<<>>}
  ELSE LET shorter == SeqsUpTo(S, n - 1)
       IN shorter \cup {Append(s, x) : s \in {t \in shorter : Len(t) = n - 1}, x \in S}

RECURSIVE Perms(_)
\* all orderings of the finite set S, as sequences
Perms(S) ==
  IF S = {} THEN {<<>>}
  ELSE UNION {{<<x>> \o p : p \in Perms(S \ {x})} : x \in S}

\* what scope.querySelectorAll(selector) can do: return a sequence of
\* elements and holes, return a value that cannot be spread, or throw
QueryResults ==
  {[kind |-> "list", items |-> s] : s \in SeqsUpTo(Elements \cup {Hole}, MaxEntries)}
  \cup {[kind |-> "notIterable", items |-> <<>>], [kind |-> "throws", items |-> <<>>]}

\* -------------------------------------------------------- configurations
\* o.keys is Object.keys(o) in order; o.scope is the kind of value under
\* _scope_; o.eh is the kind of function under __exeptionHandler__
ScopeKinds == {"null", "valid", "noQuery"}

\* a configuration whose first handler writes to it during the call: two
\* selectors and an exception handler of the caller's; plan is the write
\* the handler of ".a" makes
MutConfig ==
  [keys |-> <<ScopeKey, ".a", ".b", HandlerKey>>, scope |-> "plain", eh |-> "user",
   fns |-> [s \in {".a"} |-> "writer"], plan |-> [op |-> "none", key |-> "none"]]

\* the default parameter value of walkVertically
DefaultVertically ==
  [keys |-> <<ScopeKey, HandlerKey>>, scope |-> "null", eh |-> "defaultV"]

\* the default parameter value of walkHorizontally (document is a scope
\* with querySelectorAll)
DefaultHorizontally ==
  [keys |-> <<ScopeKey, HandlerKey>>, scope |-> "valid", eh |-> "defaultH"]

\* a configuration whose first selector is bound to a value that is not a
\* function (a string, a number, an object)
NotCallableConfig ==
  [keys |-> <<ScopeKey, ".a", ".b", HandlerKey>>, scope |-> "valid", eh |-> "user",
   fns |-> [s \in {".a"} |-> "notCallable"]]

\* configurations a caller passes explicitly
UserConfigs ==
  LET sels == UNION {Perms(S) : S \in {T \in SUBSET SelectorKeys : Cardinality(T) <= MaxKeys}}
      ehOf(ks) == IF \E i \in 1..Len(ks) : ks[i] = HandlerKey THEN "user" ELSE "none"
  IN {[keys |-> ks, scope |-> "absent", eh |-> ehOf(ks)] : ks \in sels}
     \cup {[keys |-> <<ScopeKey>> \o ks, scope |-> sc, eh |-> ehOf(ks)] :
             ks \in sels, sc \in ScopeKinds}

VARIABLES
  strategy,   \* "V": walkVertically is called, "H": walkHorizontally
  o,          \* the configuration object of the call
  pc,         \* where the walker's code stands
  selectors,  \* Object.keys(o).filter(...), the array being iterated
  si,         \* index of the selector being iterated
  elements,   \* walkVertically: matches of the current selector not yet visited
  pool,       \* walkHorizontally: the work items collected
  li,         \* walkHorizontally: index of the pool entry pool.map visits
  inv,        \* one record per handler invocation, in invocation order
  allValues,  \* Promise.all: the values array being filled
  remaining,  \* Promise.all: promises not yet fulfilled
  ret,        \* what the call's promise resolved to
  err,        \* what the call's promise rejected with
  queries,    \* history: the querySelectorAll calls issued, in order
  overtaken,  \* history: an invocation ended with a value while an earlier one was pending
  other       \* a second call, suspended while this one runs: its variables

vars == <<strategy, o, pc, selectors, si, elements, pool, li, inv,
          allValues, remaining, ret, err, queries, overtaken, other>>

\* no second call has been made
NoCall == [pc |-> "none"]

NoRet == [type |-> "none", items |-> <<>>]

\* ------------------------------------------------------------ helpers
\* Object.keys(o).filter((key) => !["_scope_"].includes(key))
SelectorsOf(cfg) == SelectSeq(cfg.keys, LAMBDA key : key # ScopeKey)

\* [...result].filter((element) => element)
FilterElements(items) == SelectSeq(items, LAMBDA element : element # Hole)

\* variant: the handlers are given a copy of the configuration
Context_Copy(element, selector) ==
  [element |-> element, selector |-> selector, self |-> "copy"]

\* the object handed to a handler and to the exception handler
Context(element, selector) ==
  [element |-> element, selector |-> selector, self |-> "o"]

\* a selector whose handler is written for resolve and reject parameters:
\* (params, resolve, reject) => { ... resolve(v) or reject(e) ... }
CallbackKey == ".cb"

\* variant: the handlers are bound to the selectors when the call starts
HandlerFn_Bound(cfg, selector) ==
  IF selector = HandlerKey THEN cfg.eh
  ELSE IF selector \in DOMAIN MutConfig.fns THEN MutConfig.fns[selector]
  ELSE IF selector = CallbackKey THEN "callback" ELSE "user"

\* the kind of value stored under o[selector], read when the call is made:
\* cfg.fns, when present, names the values that are not plain handlers
HandlerFn(cfg, selector) ==
  IF selector = HandlerKey THEN cfg.eh
  ELSE IF "fns" \in DOMAIN cfg /\ selector \in DOMAIN cfg.fns THEN cfg.fns[selector]
  ELSE IF selector = CallbackKey THEN "callback" ELSE "user"

\* variant: the exception handler is extracted when the call starts
ExceptionHandlerOf_AtStart(cfg) == MutConfig.eh

\* o.__exeptionHandler__, read in the catch block
ExceptionHandlerOf(cfg) == cfg.eh

\* variant: the scope is extracted when the call starts
ScopeOf_AtStart(cfg) == MutConfig.scope

\* o._scope_, read where the query is issued
ScopeOf(cfg) == cfg.scope

\* no write to the configuration
NoWrite == [op |-> "none", key |-> "none"]

\* the arguments of a handler call: o[selector]({element, selector, self})
HandlerArguments(ctx) == <<ctx>>

\* the arguments of an exception-handler call:
\* o.__exeptionHandler__(ex, {element, selector, self})
ExceptionHandlerArguments(ex, ctx) == <<ex, ctx>>

\* what a caller-supplied function throws or rejects with, by the role it
\* is called in
Thrown(role) == IF role = "handler" THEN Errors ELSE HandlerErrors

\* variant: a value that is not a function is not called
NonFunctionCall_Skipped == {[kind |-> "pending", error |-> NoError]}

\* o[selector](...) where o[selector] is not a function: the call
\* expression throws a TypeError
NonFunctionCall == {[kind |-> "throw", error |-> TypeError]}

\* what calling a function of kind fn does before its first suspension:
\* it returns (a value or a promise, "pending") or it throws.  A callback
\* handler calls its second or third parameter, which is undefined; calling
\* a missing ("none") or non-function ("notCallable") value throws a
\* TypeError; "user2" is a second caller-supplied function, "writer" one
\* that writes to self
SyncOutcomes(fn, role) ==
  CASE fn \in {"none", "notCallable"} -> NonFunctionCall
    [] fn = "callback" -> {[kind |-> "pending", error |-> NoError],
                           [kind |-> "throw", error |-> TypeError]}
    [] fn \in {"user", "user2", "writer"} -> {[kind |-> "pending", error |-> NoError]}
                      \cup {[kind |-> "throw", error |-> e] : e \in Thrown(role)}
    [] OTHER -> {[kind |-> "pending", error |-> NoError]}

\* how the awaited result of a function of kind fn settles.  The default
\* of walkVertically logs and returns nothing; the default of
\* walkHorizontally calls its third parameter, which no caller passes
AsyncOutcomes(fn, role) ==
  CASE fn \in {"user", "user2", "writer"} -> {[kind |-> "resolve", value |-> v, error |-> NoError] : v \in Values}
                      \cup {[kind |-> "reject", value |-> Undefined, error |-> e] : e \in Thrown(role)}
    [] fn = "callback" -> {[kind |-> "reject", value |-> Undefined, error |-> TypeError]}
    [] fn = "defaultV" -> {[kind |-> "resolve", value |-> Undefined, error |-> NoError]}
    [] fn = "defaultH" -> {[kind |-> "reject", value |-> Undefined, error |-> TypeError]}
    [] OTHER -> {}

\* the record of a handler invocation that has just been made
\* (asked: the number of queries issued before it; seen: the number of
\* handlers whose synchronous part ran before its own; ehFn: the value the
\* catch block read from o.__exeptionHandler__; shown: what self, which is
\* o, shows when the handler is called; wrote: the write the invocation
\* made to the configuration)
NewInv(item, fn) ==
  [element |-> item.element, selector |-> item.selector,
   ctx |-> Context(item.element, item.selector), fn |-> fn,
   args |-> HandlerArguments(Context(item.element, item.selector)), ehArgs |-> <<>>,
   st |-> "awaitH", hung |-> FALSE, hErr |-> NoError, hVal |-> Undefined,
   ehCalls |-> 0, ehErr |-> NoError, ehCtx |-> Context(Hole, Hole),
   ehVal |-> Undefined, failure |-> NoError, asked |-> Len(queries), seen |-> Len(inv),
   ehFn |-> Undefined, shown |-> o, wrote |-> NoWrite]

\* the catch block: o.__exeptionHandler__(ex, {element, selector, self})
\* is called; r is the invocation record, out the synchronous outcome of
\* the exception handler
Caught(r, ex, out) ==
  IF out.kind = "throw"
  THEN [r EXCEPT !.st = "failed", !.hErr = ex, !.failure = out.error,
                 !.ehFn = ExceptionHandlerOf(o),
                 !.ehCalls = IF ExceptionHandlerOf(o) = "none" THEN @ ELSE @ + 1,
                 !.ehErr = IF ExceptionHandlerOf(o) = "none" THEN @ ELSE ex,
                 !.ehCtx = IF ExceptionHandlerOf(o) = "none" THEN @
                           ELSE Context(r.element, r.selector),
                 !.ehArgs = IF ExceptionHandlerOf(o) = "none" THEN @
                            ELSE ExceptionHandlerArguments(ex, Context(r.element, r.selector))]
  ELSE [r EXCEPT !.st = "awaitEH", !.hErr = ex, !.ehCalls = @ + 1,
                 !.ehFn = ExceptionHandlerOf(o),
                 !.ehErr = ex, !.ehCtx = Context(r.element, r.selector),
                 !.ehArgs = ExceptionHandlerArguments(ex, Context(r.element, r.selector))]

\* the call has been made and has not run yet
Called ==
  /\ pc = "start"
  /\ selectors = <<>>
  /\ si = 1
  /\ elements = <<>>
  /\ pool = <<>>
  /\ li = 1
  /\ inv = <<>>
  /\ allValues = <<>>
  /\ remaining = 0
  /\ ret = NoRet
  /\ err = NoError
  /\ queries = <<>>
  /\ overtaken = FALSE

Init ==
  /\ strategy \in {"V", "H"}
  /\ o \in UserConfigs \cup (IF strategy = "V" THEN {DefaultVertically} ELSE {DefaultHorizontally})
  /\ Called
  /\ other = NoCall

\* configurations whose selector handler is written for resolve and reject
CallbackConfigs ==
  {[keys |-> <<ScopeKey, CallbackKey>> \o ks, scope |-> "valid",
    eh |-> IF ks = <<>> THEN "none" ELSE "user"] : ks \in {<<>>, <<HandlerKey>>}}

InitCallback ==
  /\ strategy \in {"V", "H"}
  /\ o \in CallbackConfigs
  /\ Called
  /\ other = NoCall

\* variant: the scope key is removed from the configuration with delete
KeysScanned_Deleted(cfg) == [cfg EXCEPT !.keys = SelectorsOf(cfg), !.scope = "absent"]

\* the configuration after Object.keys(o).filter(...): both build new
\* arrays and leave o as it was
KeysScanned(cfg) == cfg

\* the call enters the function: the key array is computed once
Start ==
  /\ pc = "start"
  /\ selectors' = SelectorsOf(o)
  /\ o' = KeysScanned(o)
  /\ pc' = "query"
  /\ UNCHANGED <<other, strategy, si, elements, pool, li, inv, allValues, remaining,
                 ret, err, queries, overtaken>>

\* invocation k ends with a value: does it do so before an earlier one?
Overtakes(k) ==
  overtaken \/ \E j \in 1..(k - 1) : inv[j].st \in {"awaitH", "awaitEH"}

RECURSIVE Returned(_)
\* entries the scope has returned over the queries qs
Returned(qs) ==
  IF qs = <<>> THEN 0 ELSE Len(Head(qs).result.items) + Returned(Tail(qs))

\* the answers the scope may give to the next query (the entries of a
\* suspended second call count towards the same bound); a scope of the
\* kinds "plain" and "replaced" returns its elements from the first on,
\* or throws
Answers ==
  {r \in QueryResults :
     /\ Returned(queries) + (IF other = NoCall THEN 0 ELSE Returned(other.queries))
          + Len(r.items) <= MaxEntries
     /\ o.scope \in {"plain", "replaced"} =>
          /\ r.kind \in {"list", "throws"}
          /\ \A i \in 1..Len(r.items) : r.items[i] = Elements1[i]}

\* what walkVertically's promise resolves to: return o
ReturnVertically == [type |-> "config", items |-> <<>>]

\* variant: the loop goes on to the next element without awaiting
AwaitVertically_NoWait(what) == "element"

\* where walkVertically stands after calling a handler ("awaitH") or the
\* exception handler ("awaitEH"): suspended on the await
AwaitVertically(what) == what

\* variant: the failure of the exception handler is swallowed
UncaughtVertically_Swallowed == "element"

\* where walkVertically goes when the awaited exception handler call throws
\* or rejects: nothing catches it, the async function rejects
UncaughtVertically == "rejected"

\* variant: a failing query counts as a query without matches
UncaughtQuery_Skipped == "element"

\* where a walker goes when o._scope_.querySelectorAll(selector) or the
\* spreading of its result throws: no try block surrounds it, the async
\* function rejects
UncaughtQuery == "rejected"

\* variant: walkHorizontally guards the scope as walkVertically does
H_NoScope_Guarded(sc) == IF sc \in {"absent", "null"} THEN "launch" ELSE UncaughtQuery

\* walkHorizontally reads o._scope_.querySelectorAll unguarded: a scope sc
\* that is absent, null or without the method makes the expression throw
H_NoScope(sc) == UncaughtQuery

\* ------------------------------------------------------ walkVertically
\* for (let selector of ...) { let elements = o._scope_ ? [...].filter() : [] }
V_Query ==
  /\ strategy = "V" /\ pc = "query"
  /\ IF si > Len(selectors)
     THEN /\ pc' = "resolved"
          /\ ret' = ReturnVertically
          /\ UNCHANGED <<elements, err, queries>>
     ELSE IF ScopeOf(o) \in {"absent", "null"}
     THEN /\ elements' = <<>>
          /\ pc' = "element"
          /\ UNCHANGED <<ret, err, queries>>
     ELSE IF ScopeOf(o) = "noQuery"
     THEN /\ pc' = UncaughtQuery
          /\ err' = TypeError
          /\ UNCHANGED <<elements, ret, queries>>
     ELSE \E r \in Answers :
          /\ queries' = Append(queries, [selector |-> selectors[si], result |-> r,
                                          scope |-> ScopeOf(o)])
          /\ IF r.kind = "list"
             THEN /\ elements' = FilterElements(r.items)
                  /\ pc' = "element"
                  /\ UNCHANGED <<ret, err>>
             ELSE /\ pc' = UncaughtQuery
                  /\ err' = IF r.kind = "throws" THEN "QueryError" ELSE TypeError
                  /\ UNCHANGED <<elements, ret>>
  /\ UNCHANGED <<other, strategy, o, selectors, si, pool, li, inv, allValues, remaining, overtaken>>

\* variant: an element met again later in the same match list is dropped
Remaining_Dedup(es) == SelectSeq(Tail(es), LAMBDA x : x # Head(es))

\* for (let e of elements): the iterator moves past the element it has
\* yielded and leaves the rest of the list as it is
Remaining(es) == Tail(es)

\* for (let e of elements) { try { await o[selector]({...}) } catch (ex) {...} }
V_Element ==
  /\ strategy = "V" /\ pc = "element"
  /\ IF elements = <<>>
     THEN /\ si' = si + 1
          /\ pc' = "query"
          /\ UNCHANGED <<elements, inv, err>>
     ELSE LET item == [element |-> Head(elements), selector |-> selectors[si]]
              fn == HandlerFn(o, item.selector)
          IN /\ elements' = Remaining(elements)
             /\ UNCHANGED si
             /\ \E out \in SyncOutcomes(fn, "handler") :
                  IF out.kind = "pending"
                  THEN /\ inv' = Append(inv, NewInv(item, fn))
                       /\ pc' = AwaitVertically("awaitH")
                       /\ UNCHANGED err
                  ELSE \E out2 \in SyncOutcomes(ExceptionHandlerOf(o), "eh") :
                       /\ inv' = Append(inv, Caught(NewInv(item, fn), out.error, out2))
                       /\ IF out2.kind = "throw"
                          THEN pc' = UncaughtVertically /\ err' = out2.error
                          ELSE pc' = AwaitVertically("awaitEH") /\ UNCHANGED err
  /\ UNCHANGED <<other, strategy, o, selectors, pool, li, allValues, remaining, ret, queries,
                 overtaken>>

\* the awaited handler call settles
V_HandlerSettles ==
  /\ strategy = "V" /\ pc = "awaitH"
  /\ LET k == Len(inv)
     IN /\ inv[k].st = "awaitH" /\ ~inv[k].hung
        /\ \E out \in AsyncOutcomes(inv[k].fn, "handler") :
             IF out.kind = "resolve"
             THEN /\ inv' = [inv EXCEPT ![k].st = "resolved", ![k].hVal = out.value]
                  /\ overtaken' = Overtakes(k)
                  /\ pc' = "element"
                  /\ UNCHANGED err
             ELSE \E out2 \in SyncOutcomes(ExceptionHandlerOf(o), "eh") :
                  /\ inv' = [inv EXCEPT ![k] = Caught(inv[k], out.error, out2)]
                  /\ UNCHANGED overtaken
                  /\ IF out2.kind = "throw"
                     THEN pc' = UncaughtVertically /\ err' = out2.error
                     ELSE pc' = AwaitVertically("awaitEH") /\ UNCHANGED err
  /\ UNCHANGED <<other, strategy, o, selectors, si, elements, pool, li, allValues, remaining,
                 ret, queries>>

\* the awaited exception-handler call settles
V_ExceptionHandlerSettles ==
  /\ strategy = "V" /\ pc = "awaitEH"
  /\ LET k == Len(inv)
     IN /\ inv[k].st = "awaitEH" /\ ~inv[k].hung
        /\ \E out \in AsyncOutcomes(inv[k].ehFn, "eh") :
             IF out.kind = "resolve"
             THEN /\ inv' = [inv EXCEPT ![k].st = "resolved", ![k].ehVal = out.value]
                  /\ overtaken' = Overtakes(k)
                  /\ pc' = "element"
                  /\ UNCHANGED err
             ELSE /\ inv' = [inv EXCEPT ![k].st = "failed", ![k].failure = out.error]
                  /\ UNCHANGED overtaken
                  /\ pc' = UncaughtVertically
                  /\ err' = out.error
  /\ UNCHANGED <<other, strategy, o, selectors, si, elements, pool, li, allValues, remaining,
                 ret, queries>>

\* ---------------------------------------------------- walkHorizontally
Unset == "unset"

\* variant: each entry is awaited before the next one is started
H_Enabled_OneByOne(what, k) ==
  CASE what = "launch" -> pc = "launch" /\ \A j \in 1..Len(inv) : inv[j].st \in {"resolved", "failed"}
    [] what = "settle" -> pc \in {"launch", "waiting"}

\* run-to-completion of the synchronous part of walkHorizontally: pool.map
\* starts an entry whenever it reaches it; a pending call can settle only
\* once the function has returned Promise.all(...)
H_Enabled(what, k) ==
  CASE what = "launch" -> pc = "launch"
    [] what = "settle" -> pc = "waiting"

\* variant: values are stored in the order the promises are fulfilled
PromiseAllStore_Push(vals, k, v) ==
  LET free == {j \in 1..Len(vals) : vals[j] = "unset"}
      first == CHOOSE j \in free : \A i \in free : j <= i
  IN [vals EXCEPT ![first] = v]

\* Promise.all stores the value of the k-th promise at index k
PromiseAllStore(vals, k, v) == [vals EXCEPT ![k] = v]

\* variant: the matches of a selector are dispatched as soon as they are found
AfterQuery_Dispatch == "launch"

\* where walkHorizontally goes after the query of one selector: forEach
\* moves on to the next key, nothing is started yet
AfterQuery == "query"

\* Object.keys(o).filter(...).forEach((selector) => {...pool.push(...)})
H_Query ==
  /\ strategy = "H" /\ pc = "query"
  /\ IF si > Len(selectors)
     THEN /\ pc' = "launch"
          /\ UNCHANGED <<si, pool, err, queries>>
     ELSE IF o.scope \notin {"valid", "plain"}
     THEN /\ pc' = H_NoScope(o.scope)
          /\ err' = TypeError
          /\ UNCHANGED <<si, pool, queries>>
     ELSE \E r \in Answers :
          /\ queries' = Append(queries, [selector |-> selectors[si], result |-> r,
                                          scope |-> o.scope])
          /\ IF r.kind = "list"
             THEN /\ pool' = pool \o [j \in 1..Len(FilterElements(r.items)) |->
                                       [element |-> FilterElements(r.items)[j],
                                        selector |-> selectors[si]]]
                  /\ si' = si + 1
                  /\ pc' = AfterQuery
                  /\ UNCHANGED err
             ELSE /\ pc' = UncaughtQuery
                  /\ err' = IF r.kind = "throws" THEN "QueryError" ELSE TypeError
                  /\ UNCHANGED <<si, pool>>
  /\ UNCHANGED <<other, strategy, o, selectors, elements, li, inv, allValues, remaining, ret,
                 overtaken>>

\* variant: the entries are visited from the last to the first
MapIndex_Backwards(i, n) == n + 1 - i

\* pool.map calls its callback on the entries by ascending index: the i-th
\* call is on entry i of n
MapIndex(i, n) == i

\* pool.map((_) => new Promise(async (resolve, reject) => {...})) visits the
\* next entry, or has visited all and Promise.all is called on the promises
H_Launch ==
  /\ strategy = "H" /\ H_Enabled("launch", li)
  /\ IF li > Len(pool)
     THEN /\ allValues' = [k \in 1..Len(pool) |-> Unset]
          /\ remaining' = Len(pool)
          /\ IF remaining' = 0
             THEN pc' = "resolved" /\ ret' = [type |-> "array", items |-> allValues']
             ELSE pc' = "waiting" /\ UNCHANGED ret
          /\ UNCHANGED <<li, inv>>
     ELSE LET item == pool[MapIndex(li, Len(pool))]
              fn == HandlerFn(o, item.selector)
          IN /\ li' = li + 1
             /\ \E out \in SyncOutcomes(fn, "handler") :
                  IF out.kind = "pending"
                  THEN inv' = Append(inv, NewInv(item, fn))
                  ELSE \E out2 \in SyncOutcomes(ExceptionHandlerOf(o), "eh") :
                         inv' = Append(inv, Caught(NewInv(item, fn), out.error, out2))
             /\ UNCHANGED <<pc, allValues, remaining, ret>>
  /\ UNCHANGED <<other, strategy, o, selectors, si, elements, pool, err, queries, overtaken>>

\* variant: the value of the exception handler is dropped
RecoveryValue_Dropped(r, v) == "undefined"

\* resolve(await o.__exeptionHandler__(ex, {...})): the entry r, whose
\* handler failed, is resolved with the value v of the exception handler
RecoveryValue(r, v) == v

\* variant: the first fulfilment settles the call (Promise.race, Promise.any)
PromiseAllReady_Any(left) == TRUE

\* Promise.all resolves when none of its promises is left unfulfilled
PromiseAllReady(left) == left = 0

\* Promise.all reacts to the fulfilment of the k-th promise with value v
Fulfilled(k, v) ==
  /\ overtaken' = Overtakes(k)
  /\ allValues' = PromiseAllStore(allValues, k, v)
  /\ remaining' = remaining - 1
  /\ IF PromiseAllReady(remaining')
     THEN pc' = "resolved" /\ ret' = [type |-> "array", items |-> allValues']
     ELSE UNCHANGED <<pc, ret>>

\* resolve(await o[_.selector]({...})) : the handler call of entry k settles
H_HandlerSettles(k) ==
  /\ strategy = "H" /\ H_Enabled("settle", k)
  /\ inv[k].st = "awaitH" /\ ~inv[k].hung
  /\ \E out \in AsyncOutcomes(inv[k].fn, "handler") :
       IF out.kind = "resolve"
       THEN /\ inv' = [inv EXCEPT ![k].st = "resolved", ![k].hVal = out.value]
            /\ Fulfilled(k, out.value)
       ELSE /\ \E out2 \in SyncOutcomes(ExceptionHandlerOf(o), "eh") :
                 inv' = [inv EXCEPT ![k] = Caught(inv[k], out.error, out2)]
            /\ UNCHANGED <<pc, allValues, remaining, ret, overtaken>>
  /\ UNCHANGED <<other, strategy, o, selectors, si, elements, pool, li, err, queries>>

\* resolve(await o.__exeptionHandler__(ex, {...})) : the exception-handler
\* call of entry k settles; a rejection leaves the entry's promise pending
H_ExceptionHandlerSettles(k) ==
  /\ strategy = "H" /\ H_Enabled("settle", k)
  /\ inv[k].st = "awaitEH" /\ ~inv[k].hung
  /\ \E out \in AsyncOutcomes(inv[k].ehFn, "eh") :
       IF out.kind = "resolve"
       THEN /\ inv' = [inv EXCEPT ![k].st = "resolved", ![k].ehVal = out.value]
            /\ Fulfilled(k, RecoveryValue(inv[k], out.value))
       ELSE /\ inv' = [inv EXCEPT ![k].st = "failed", ![k].failure = out.error]
            /\ UNCHANGED <<pc, allValues, remaining, ret, overtaken>>
  /\ UNCHANGED <<other, strategy, o, selectors, si, elements, pool, li, err, queries>>

\* the environment: a pending handler or exception-handler call turns out
\* never to settle
Hangs(k) ==
  /\ strategy = "V" \/ H_Enabled("settle", k)
  /\ inv[k].st \in {"awaitH", "awaitEH"} /\ ~inv[k].hung
  /\ inv' = [inv EXCEPT ![k].hung = TRUE]
  /\ UNCHANGED <<other, strategy, o, pc, selectors, si, elements, pool, li, allValues,
                 remaining, ret, err, queries, overtaken>>

\* ------------------------------------- handlers that write to self
\* the writes a handler makes through self: it sets or deletes the scope
\* or the exception handler, sets the handler of a selector, or sets a key
\* the configuration did not have
Writes ==
  {[op |-> "set", key |-> key] : key \in {ScopeKey, HandlerKey, ".a", ".b", ".c"}}
  \cup {[op |-> "delete", key |-> key] : key \in {ScopeKey, HandlerKey}}

\* the configuration cfg after self[w.key] = ... or delete self[w.key]: a
\* new key goes to the end of Object.keys, the value set is another scope
\* ("replaced") or another function ("user2")
Written(cfg, w) ==
  LET has == \E i \in 1..Len(cfg.keys) : cfg.keys[i] = w.key
      value == IF w.op = "delete" THEN "none" ELSE "user2"
  IN [cfg EXCEPT
        !.keys = IF w.op = "delete" THEN SelectSeq(cfg.keys, LAMBDA key : key # w.key)
                 ELSE IF has THEN cfg.keys ELSE Append(cfg.keys, w.key),
        !.scope = IF w.key # ScopeKey THEN cfg.scope
                  ELSE IF w.op = "delete" THEN "absent" ELSE "replaced",
        !.eh = IF w.key # HandlerKey THEN cfg.eh ELSE value,
        !.fns = IF w.key \in {ScopeKey, HandlerKey} THEN cfg.fns
                ELSE [s \in DOMAIN cfg.fns \cup {w.key} |->
                        IF s = w.key THEN value ELSE cfg.fns[s]]]

\* variant: the loop reads the keys of the configuration as it goes
KeysIterated_Live(sel, w) ==
  IF w.op = "set" /\ w.key # ScopeKey /\ \A i \in 1..Len(sel) : sel[i] # w.key
  THEN Append(sel, w.key) ELSE sel

\* the array the loop iterates after the write w to the configuration:
\* Object.keys(o).filter(...) built it before the loop, a write to o does
\* not reach it
KeysIterated(sel, w) == sel

\* the handler of invocation k is running: walkVertically is suspended on
\* it; under walkHorizontally it is the call pool.map has just made, or any
\* pending call once Promise.all has been returned
Runs(k) ==
  /\ inv[k].st = "awaitH" /\ ~inv[k].hung
  /\ IF strategy = "V" THEN pc \in {"awaitH", "awaitEH"} /\ k = Len(inv)
     ELSE pc = "waiting" \/ (pc = "launch" /\ k = Len(inv))

\* the writing handler, in invocation k, makes its write w to self
Mutate(k, w) ==
  /\ Runs(k)
  /\ inv[k].wrote = NoWrite
  /\ inv[k].fn = "writer" /\ w = o.plan
  /\ o' = Written(o, w)
  /\ inv' = [inv EXCEPT ![k].wrote = w]
  /\ selectors' = KeysIterated(selectors, w)
  /\ UNCHANGED <<other, strategy, pc, si, elements, pool, li, allValues, remaining, ret,
                 err, queries, overtaken>>

\* the variables of the running call: its parameter o and the locals of
\* the function body
Running ==
  [strategy |-> strategy, o |-> o, pc |-> pc, selectors |-> selectors, si |-> si,
   elements |-> elements, pool |-> pool, li |-> li, inv |-> inv,
   allValues |-> allValues, remaining |-> remaining, ret |-> ret, err |-> err,
   queries |-> queries, overtaken |-> overtaken]

\* variant: pool is declared once, outside the function
ResumedPool_Shared(mine, theirs) == mine

\* let pool = [] is a local of the call: the call that resumes finds its
\* own pool (theirs), not the pool of the call that ran meanwhile (mine)
ResumedPool(mine, theirs) == theirs

\* the running call is suspended on an await or has returned its promise,
\* and the event loop runs the other call
Switch ==
  /\ other # NoCall
  /\ pc \in {"awaitH", "awaitEH", "waiting", "resolved", "rejected"}
  /\ other' = Running
  /\ strategy' = other.strategy
  /\ o' = other.o
  /\ pc' = other.pc
  /\ selectors' = other.selectors
  /\ si' = other.si
  /\ elements' = other.elements
  /\ pool' = ResumedPool(pool, other.pool)
  /\ li' = other.li
  /\ inv' = other.inv
  /\ allValues' = other.allValues
  /\ remaining' = other.remaining
  /\ ret' = other.ret
  /\ err' = other.err
  /\ queries' = other.queries
  /\ overtaken' = other.overtaken

Next ==
  \/ Start
  \/ V_Query
  \/ V_Element
  \/ V_HandlerSettles
  \/ V_ExceptionHandlerSettles
  \/ H_Query
  \/ H_Launch
  \/ \E k \in 1..Len(inv) : H_HandlerSettles(k)
  \/ \E k \in 1..Len(inv) : H_ExceptionHandlerSettles(k)
  \/ \E k \in 1..Len(inv) : Hangs(k)

Spec == Init /\ [][Next]_vars

\* the calls whose handlers use resolve and reject parameters
CallbackSpec == InitCallback /\ [][Next]_vars

\* two distinct configurations, each with one selector of its own, the
\* first without and the second with an exception handler
FirstConfig == [keys |-> <<ScopeKey, ".a">>, scope |-> "valid", eh |-> "none"]
SecondConfig == [keys |-> <<ScopeKey, ".b", HandlerKey>>, scope |-> "valid", eh |-> "user"]

\* two calls, of any mix of the strategies, are made one after the other on
\* distinct configurations: the second starts when the first is suspended
InitPair ==
  /\ strategy \in {"V", "H"}
  /\ o = FirstConfig
  /\ Called
  /\ \E second \in {"V", "H"} :
       other = [strategy |-> second, o |-> SecondConfig, pc |-> "start",
                selectors |-> <<>>, si |-> 1, elements |-> <<>>, pool |-> <<>>,
                li |-> 1, inv |-> <<>>, allValues |-> <<>>, remaining |-> 0,
                ret |-> NoRet, err |-> NoError, queries |-> <<>>, overtaken |-> FALSE]

PairNext == Next \/ Switch

\* two overlapping calls
PairSpec == InitPair /\ [][PairNext]_vars

\* a call, of either strategy, on a configuration its handlers write to
InitMut ==
  /\ strategy \in {"V", "H"}
  /\ \E w \in Writes : o = [MutConfig EXCEPT !.plan = w]
  /\ Called
  /\ other = NoCall

MutNext == Next \/ \E k \in 1..Len(inv) : \E w \in Writes : Mutate(k, w)

\* calls whose handlers write to the configuration
MutSpec == InitMut /\ [][MutNext]_vars

InitNotCallable ==
  /\ strategy \in {"V", "H"}
  /\ o = NotCallableConfig
  /\ Called
  /\ other = NoCall

\* calls on a configuration with a selector bound to a non-function
NotCallableSpec == InitNotCallable /\ [][Next]_vars

\* the job queue runs every step of the walker that is ready, and a pending
\* call that is not hung settles in the end; nothing forces a call to hang
LiveSpec ==
  /\ Spec
  /\ WF_vars(Start \/ V_Query \/ V_Element \/ H_Query \/ H_Launch)
  /\ WF_vars(V_HandlerSettles)
  /\ WF_vars(V_ExceptionHandlerSettles)
  /\ \A k \in 1..MaxEntries :
       /\ WF_vars(k <= Len(inv) /\ H_HandlerSettles(k))
       /\ WF_vars(k <= Len(inv) /\ H_ExceptionHandlerSettles(k))

TypeOK ==
  /\ strategy \in {"V", "H"}
  /\ pc \in {"start", "query", "element", "awaitH", "awaitEH", "launch", "waiting",
             "resolved", "rejected"}
  /\ Len(inv) <= MaxEntries
  /\ Len(pool) <= MaxEntries

\* ------------------------------------------------------------ properties
RECURSIVE MatchesOf(_)
\* the (selector, element) matches of a query history, in concatenated order
MatchesOf(qs) ==
  IF qs = <<>> THEN <<>>
  ELSE LET q == qs[Len(qs)]
           found == FilterElements(q.result.items)
       IN MatchesOf(SubSeq(qs, 1, Len(qs) - 1))
          \o [j \in 1..Len(found) |-> [element |-> found[j], selector |-> q.selector]]

\* the value invocation k finally settled with: the handler's, or the
\* exception handler's when the handler failed
SettledValue(k) == IF inv[k].hErr = NoError THEN inv[k].hVal ELSE inv[k].ehVal

Failing == {k \in 1..Len(inv) : inv[k].hErr # NoError}
InFlight == {k \in 1..Len(inv) : inv[k].st \in {"awaitH", "awaitEH"}}

\* C1: walkVertically returns the sequence of settled values, one per
\* (selector, element) match, in selector declaration order and then in
\* match order.
C1_VerticalResultsInMatchOrder ==
  (strategy = "V" /\ pc = "resolved") =>
    /\ ret.type = "array"
    /\ Len(ret.items) = Len(MatchesOf(queries))
    /\ \A i \in 1..Len(ret.items) :
         /\ i <= Len(inv)
         /\ ret.items[i] = SettledValue(i)
         /\ inv[i].element = MatchesOf(queries)[i].element
         /\ inv[i].selector = MatchesOf(queries)[i].selector

C3_VerticalOneInFlight ==
  strategy = "V" =>
    /\ \A k \in 1..Len(inv) : k < Len(inv) => inv[k].st = "resolved"
    /\ Cardinality(InFlight) <= 1

\* the second handler call is in flight after the first match was
\* recovered by the exception handler
C3_Witness ==
  /\ strategy = "V" /\ Len(inv) = 2
  /\ inv[1].ehCalls = 1 /\ inv[1].st = "resolved"
  /\ inv[2].st = "awaitH"

\* C4: walkHorizontally starts the handler of every worklist entry before
\* any started call settles: once a call has ended with a value or is
\* known never to settle, every entry has been started.
C4_HorizontalAllStarted ==
  (strategy = "H" /\ \E k \in 1..Len(inv) : inv[k].st = "resolved" \/ inv[k].hung) =>
    /\ Len(inv) = Len(pool)
    /\ pc \in {"waiting", "resolved"}

\* both handlers are started, none has settled, and the first never will
C4_Witness ==
  /\ strategy = "H" /\ pc = "waiting" /\ Len(pool) = 2 /\ Len(inv) = 2
  /\ inv[1].st = "awaitH" /\ inv[1].hung
  /\ inv[2].st = "awaitH" /\ ~inv[2].hung

\* C5: in both strategies a failing handler causes exactly one call of the
\* exception handler for that match, with the error and a context of the
\* same element, selector and configuration; a succeeding handler causes
\* none.
C5_OneExceptionHandlerCall ==
  \A k \in 1..Len(inv) :
    IF inv[k].hErr # NoError
    THEN /\ inv[k].ehCalls = 1
         /\ inv[k].ehErr = inv[k].hErr
         /\ inv[k].ehCtx = inv[k].ctx
    ELSE inv[k].ehCalls = 0

\* C6: walkVertically puts the value of the exception handler in the result
\* position of the failing match and goes on: one entry per match, in call
\* order.
C6_VerticalRecoveredInPlace ==
  (strategy = "V" /\ pc = "resolved" /\ Failing # {}) =>
    /\ ret.type = "array"
    /\ Len(ret.items) = Len(inv)
    /\ \A k \in Failing : ret.items[k] = inv[k].ehVal

C8_VerticalDefaultRecovers ==
  (strategy = "V" /\ o.eh = "none" /\ Failing # {}) =>
    /\ pc # "rejected"
    /\ pc = "resolved" =>
         /\ ret.type = "array"
         /\ \A k \in Failing : k <= Len(ret.items) /\ ret.items[k] = inv[k].selector

\* C9: when walkHorizontally's default exception handler is in effect and a
\* handler fails, the failing slot settles with the selector and the call
\* resolves.
C9_HorizontalDefaultRecovers ==
  (strategy = "H" /\ o.eh = "defaultH") =>
    \A k \in Failing :
      /\ inv[k].st # "failed"
      /\ inv[k].st = "resolved" => inv[k].ehVal = inv[k].selector

\* C10: when the exception handler call of walkVertically throws or
\* rejects, the call rejects with that failure, and afterwards no handler
\* is called and no query is issued.
C10_VerticalHandlerFailureEnds ==
  /\ [](\A k \in 1..Len(inv) :
          (strategy = "V" /\ inv[k].st = "failed") =>
            /\ pc = "rejected"
            /\ err = inv[k].failure
            /\ k = Len(inv)
            /\ Len(queries) = inv[k].asked)
  /\ [][(strategy = "V" /\ pc = "rejected") => UNCHANGED <<pc, err, inv, queries, ret>>]_vars

\* the exception handler rejected while a match of the selector was still
\* to be visited
C10_Witness ==
  /\ strategy = "V" /\ pc = "rejected"
  /\ Len(inv) >= 1 /\ inv[Len(inv)].st = "failed"
  /\ inv[Len(inv)].failure \in HandlerErrors
  /\ elements # <<>>

\* C11: when the exception handler of walkHorizontally throws or rejects
\* for an entry, the promise of the call eventually rejects.
C11_HorizontalHandlerFailureRejects ==
  (strategy = "H" /\ \E k \in 1..Len(inv) :
                       inv[k].st = "failed" /\ inv[k].failure \in HandlerErrors)
    ~> (pc = "rejected")

\* C12: in both strategies neither the scope key nor the exception-handler
\* key is passed to the scope's query operation, and the value under
\* neither key is invoked as a per-element handler.
C12_ReservedKeysExcluded ==
  /\ \A i \in 1..Len(queries) : queries[i].selector \notin {ScopeKey, HandlerKey}
  /\ \A k \in 1..Len(inv) : inv[k].selector \notin {ScopeKey, HandlerKey}

\* C13: for every configuration whose scope is absent, walkVertically
\* resolves to an empty sequence, invokes no handler and no exception
\* handler, and does not reject.
C13_VerticalAbsentScopeEmpty ==
  (strategy = "V" /\ o.scope \in {"absent", "null"}) =>
    /\ pc # "rejected"
    /\ inv = <<>>
    /\ pc = "resolved" => (ret.type = "array" /\ ret.items = <<>>)

\* C14 as stated: walkHorizontally rejects whenever the scope is absent, and
\* invokes no handler.
C14_HorizontalAbsentScopeRejects ==
  (strategy = "H" /\ o.scope \in {"absent", "null"}) =>
    /\ inv = <<>>
    /\ pc # "resolved"

\* C14 amended: with an absent scope walkHorizontally invokes no handler;
\* it rejects when the configuration has a key other than the scope key,
\* and resolves to an empty array when it has none.
C14_HorizontalAbsentScope ==
  (strategy = "H" /\ o.scope \in {"absent", "null"}) =>
    /\ inv = <<>>
    /\ pc # "waiting"
    /\ IF \E i \in 1..Len(o.keys) : o.keys[i] # ScopeKey
       THEN pc \in {"start", "query", "rejected"}
       ELSE /\ pc # "rejected"
            /\ pc = "resolved" => ret = [type |-> "array", items |-> <<>>]

\* a configuration with the exception handler as its only key and no scope
\* has been rejected
C14_Witness ==
  /\ strategy = "H" /\ pc = "rejected"
  /\ o.scope = "absent" /\ o.keys = <<HandlerKey>>
  /\ inv = <<>>

\* the query of a selector has been attempted and has failed: the scope has
\* no query operation, or the last query threw or returned a value that
\* cannot be spread
QueryFailed ==
  \/ /\ o.scope = "noQuery"
     /\ \E i \in 1..Len(o.keys) : o.keys[i] # ScopeKey
     /\ pc \notin {"start", "query"}
  \/ /\ queries # <<>>
     /\ queries[Len(queries)].result.kind # "list"

\* C15: in both strategies, when the scope has no query operation or the
\* query of a selector throws or returns a non-iterable value, the call
\* rejects, no handler or exception handler is called for that query, and
\* none is called afterwards.
C15_QueryFailureRejects ==
  /\ [](QueryFailed =>
          /\ pc = "rejected"
          /\ err \in {TypeError, "QueryError"}
          /\ InFlight = {}
          /\ \A k \in 1..Len(inv) : inv[k].asked < Len(queries))
  /\ [][QueryFailed => UNCHANGED <<pc, err, inv, ret>>]_vars

\* walkVertically was rejected by the throwing query of its second
\* selector, after the exception handler had recovered a match of the first
C15_Witness ==
  /\ strategy = "V" /\ pc = "rejected" /\ QueryFailed
  /\ Len(queries) = 2 /\ queries[2].result.kind = "throws"
  /\ Len(inv) = 1 /\ inv[1].ehCalls = 1

RECURSIVE RawEntries(_)
\* the entries the scope returned over the queries qs, holes included
RawEntries(qs) ==
  IF qs = <<>> THEN <<>> ELSE Head(qs).result.items \o RawEntries(Tail(qs))

\* the elements the handlers were invoked on, in invocation order
Dispatched == [k \in 1..Len(inv) |-> inv[k].element]

\* C16: in both strategies the falsy entries of a query result are dropped:
\* a call that completes has invoked the handler exactly on the non-falsy
\* entries, in their order, and its result has one slot per such entry.
C16_FalsyEntriesDropped ==
  (pc = "resolved" /\ \E i \in 1..Len(RawEntries(queries)) : RawEntries(queries)[i] = Hole) =>
    LET kept == SelectSeq(RawEntries(queries), LAMBDA x : x # Hole)
    IN /\ Dispatched = kept
       /\ ret.type = "array"
       /\ Len(ret.items) = Len(kept)

\* C17: in both strategies the handler invocations of a call follow the
\* (selector, match position) pairs one to one: none is skipped, none is
\* repeated after a failure, and an element matched several times is
\* processed once per occurrence; a call that completes has made exactly
\* one invocation per pair.
C17_OneInvocationPerMatch ==
  LET matches == MatchesOf(queries)
  IN /\ Len(inv) <= Len(matches)
     /\ \A i \in 1..Len(inv) :
          /\ inv[i].element = matches[i].element
          /\ inv[i].selector = matches[i].selector
     /\ pc = "resolved" => Len(inv) = Len(matches)

\* a walkVertically call completed after two invocations on the same
\* element, the first of which failed
C17_Witness ==
  /\ strategy = "V" /\ pc = "resolved"
  /\ Len(inv) = 2 /\ inv[1].element = inv[2].element
  /\ inv[1].selector = inv[2].selector
  /\ 1 \in Failing

\* C18: when the selectors of the configuration have N matches in total and
\* no handler fails, a call of either strategy that resolves, resolves to a
\* sequence of length N.
C18_LengthIsMatchCount ==
  (pc = "resolved" /\ Failing = {}) =>
    /\ ret.type = "array"
    /\ Len(ret.items) = Len(MatchesOf(queries))

\* a handler whose value depends on nothing but the context it is given
ContextValue(ctx) == IF ctx.element = "e1" THEN "v1" ELSE "v2"

\* the one sequence a configuration and the answers of its scope determine
\* when every value is a ContextValue: the values of the matches in
\* selector order, then match order
DeterminedResult ==
  LET matches == MatchesOf(queries)
  IN [type |-> "array",
      items |-> [i \in 1..Len(matches) |->
                  ContextValue(Context(matches[i].element, matches[i].selector))]]

\* C19: for the same configuration and scope, when the value of every
\* handler depends only on its context, walkVertically and walkHorizontally
\* resolve to the same sequence: each queries the selectors of the
\* configuration in key order and resolves to the sequence these answers
\* determine.
C19_StrategiesAgree ==
  (pc = "resolved" /\ \A k \in 1..Len(inv) : SettledValue(k) = ContextValue(inv[k].ctx)) =>
    /\ [i \in 1..Len(queries) |-> queries[i].selector]
         = (IF o.scope \in {"absent", "null"} THEN <<>>
            ELSE SelectSeq(o.keys, LAMBDA key : key # ScopeKey))
    /\ ret = DeterminedResult

\* C20: called with no argument where no element matches a queried key,
\* both strategies invoke no handler, do not reject, and resolve to an
\* empty array.
C20_DefaultCallEmpty ==
  (/\ o \in {DefaultVertically, DefaultHorizontally}
   /\ \A i \in 1..Len(queries) :
        queries[i].result.kind = "list" /\ FilterElements(queries[i].result.items) = <<>>) =>
    /\ inv = <<>>
    /\ pc # "rejected"
    /\ pc = "resolved" => ret = [type |-> "array", items |-> <<>>]

\* C21: in both strategies every handler invocation receives a context
\* whose element is the matched element of its work item, whose selector is
\* the configuration key that produced the match, and whose self is the
\* configuration object of the call.
C21_HandlerContext ==
  LET matches == MatchesOf(queries)
  IN \A k \in 1..Len(inv) :
       /\ k <= Len(matches)
       /\ inv[k].ctx = [element |-> matches[k].element,
                        selector |-> matches[k].selector, self |-> "o"]
       /\ inv[k].ctx.element \in Elements
       /\ \E i \in 1..Len(o.keys) : o.keys[i] = inv[k].ctx.selector

\* walkHorizontally has invoked the handlers of two selectors, each on the
\* element its own selector matched
C21_Witness ==
  /\ strategy = "H" /\ Len(inv) = 2
  /\ inv[1].ctx.selector # inv[2].ctx.selector
  /\ inv[1].ctx.element # inv[2].ctx.element

\* C22: the promise returned by walkHorizontally and by walkVertically
\* resolves to the configuration object that was passed in, not to an array
\* of results.
C22_ResolvesToConfiguration ==
  pc = "resolved" => ret = [type |-> "config", items |-> <<>>]

\* C23: walkHorizontally invokes every processing function and the
\* exception handler with a resolve and a reject function after the
\* context, and a processing function that calls reject(error) makes the
\* call reject with that error.
C23_ResolveRejectArguments ==
  strategy = "H" =>
    \A k \in 1..Len(inv) :
      /\ inv[k].args = <<inv[k].ctx, "resolve", "reject">>
      /\ inv[k].ehCalls = 1 =>
           inv[k].ehArgs = <<inv[k].ehErr, inv[k].ehCtx, "resolve", "reject">>
      /\ (inv[k].fn = "callback" /\ inv[k].st # "awaitH") =>
           (pc = "rejected" /\ err \in Errors)

\* C24: the walker writes neither to the configuration nor to the scope:
\* in a call whose handlers perform no writes the configuration keeps its
\* keys and values at every step, and the only calls the scope receives
\* are queries for keys of the configuration.
C24_WalkerWritesNothing ==
  [][/\ o' = o
     /\ queries' # queries =>
          \E i \in 1..Len(o.keys), r \in QueryResults :
            queries' = Append(queries, [selector |-> o.keys[i], result |-> r,
                                        scope |-> o.scope])]_vars

\* a call of walkHorizontally has queried two selectors, run a handler for
\* each and resolved
C24_Witness ==
  /\ strategy = "H" /\ pc = "resolved"
  /\ Len(queries) = 2 /\ Len(inv) = 2
  /\ o.scope = "valid" /\ Len(o.keys) = 3

\* what a call does when it runs alone, as a relation between the
\* variables f of one call: it queries its own selectors in key order,
\* invokes its handlers on its own matches in order with its own context,
\* and resolves to what its own invocations determine
AsAlone(f) ==
  LET matches == MatchesOf(f.queries)
      sels == SelectSeq(f.o.keys, LAMBDA key : key # ScopeKey)
  IN /\ Len(f.queries) <= Len(sels)
     /\ \A i \in 1..Len(f.queries) : f.queries[i].selector = sels[i]
     /\ Len(f.inv) <= Len(matches)
     /\ \A k \in 1..Len(f.inv) :
          f.inv[k].ctx = [element |-> matches[k].element,
                          selector |-> matches[k].selector, self |-> "o"]
     /\ f.pc = "resolved" =>
          /\ Len(f.inv) = Len(matches)
          /\ f.ret = IF f.strategy = "V" THEN [type |-> "config", items |-> <<>>]
                     ELSE [type |-> "array",
                           items |-> [k \in 1..Len(f.inv) |->
                                       IF f.inv[k].hErr = NoError THEN f.inv[k].hVal
                                       ELSE f.inv[k].ehVal]]

\* C25: the strategies share no mutable state: when two calls on distinct
\* configurations overlap, each call's queries, handler invocations and
\* result are those of the call running alone, and a step of one call
\* leaves the variables of the suspended call as they were.
C25_CallsIndependent ==
  /\ [](AsAlone(Running) /\ AsAlone(other))
  /\ [][other' = other \/ (other' = Running /\ Running' = other)]_vars

\* both calls have a handler call pending at the same time
C25_Witness ==
  /\ other # NoCall
  /\ Len(inv) = 1 /\ inv[1].st = "awaitH"
  /\ Len(other.inv) = 1 /\ other.inv[1].st = "awaitH"
  /\ strategy # other.strategy

\* C26: in walkHorizontally every query of the call happens before the
\* first handler invocation: a handler is invoked only when every selector
\* has been queried with success, and when a query fails no handler of any
\* selector has been or will be invoked.
C26_QueriesBeforeHandlers ==
  strategy = "H" =>
    /\ inv # <<>> =>
         /\ Len(queries) = Len(SelectSeq(o.keys, LAMBDA key : key # ScopeKey))
         /\ \A i \in 1..Len(queries) : queries[i].result.kind = "list"
         /\ \A k \in 1..Len(inv) : inv[k].asked = Len(queries)
    /\ QueryFailed => (inv = <<>> /\ pc = "rejected")

\* the query of the second selector failed after the first selector had
\* matched an element: no handler has run
C26_Witness ==
  /\ strategy = "H" /\ pc = "rejected"
  /\ Len(queries) = 2 /\ queries[2].result.kind # "list"
  /\ pool # <<>> /\ inv = <<>>

\* C27: in walkVertically a handler or exception-handler call that never
\* settles hangs the whole call: the call stays suspended on it, its
\* promise never settles, and no handler is invoked and no query is issued
\* for any later match or selector.
C27_VerticalHungCallHangs ==
  /\ [](\A k \in 1..Len(inv) :
          (strategy = "V" /\ inv[k].hung) =>
            /\ pc \in {"awaitH", "awaitEH"}
            /\ k = Len(inv)
            /\ Len(queries) = inv[k].asked
            /\ ret = NoRet /\ err = NoError)
  /\ [][(strategy = "V" /\ \E k \in 1..Len(inv) : inv[k].hung) =>
          UNCHANGED <<pc, inv, queries, elements, si, ret, err>>]_vars

\* the exception handler called for the first match never settles while a
\* second match waits
C27_Witness ==
  /\ strategy = "V" /\ Len(inv) = 1
  /\ inv[1].hung /\ inv[1].st = "awaitEH"
  /\ elements # <<>>

\* C28: in walkHorizontally, when a handler call never settles, the promise
\* of the call never settles and no partial result is returned, while the
\* handler of every worklist entry has been invoked and every other pending
\* call can still settle.
C28_HorizontalHungEntry ==
  (strategy = "H" /\ \E j \in 1..Len(inv) : inv[j].hung) =>
    /\ pc = "waiting"
    /\ ret = NoRet /\ err = NoError
    /\ Len(inv) = Len(pool)
    /\ \A k \in 1..Len(inv) :
         (inv[k].st \in {"awaitH", "awaitEH"} /\ ~inv[k].hung) =>
           ENABLED (H_HandlerSettles(k) \/ H_ExceptionHandlerSettles(k))

\* the first entry never settles, the second has settled with a value
C28_Witness ==
  /\ strategy = "H" /\ Len(inv) = 2
  /\ inv[1].hung /\ inv[1].st = "awaitH"
  /\ inv[2].st = "resolved" /\ allValues[2] \in Values

\* C29: in either strategy, if every handler and exception-handler call
\* eventually settles (none hangs), the promise of the call eventually
\* settles, also when the exception handler fails or is missing.
C29_CallSettles ==
  <>(pc \in {"resolved", "rejected"} \/ \E k \in 1..Len(inv) : inv[k].hung)

\* C30: in walkHorizontally the handlers are started in worklist order,
\* each running to its first suspension before the next is started: the
\* k-th handler started is that of worklist entry k, it sees the
\* synchronous effects of exactly the k-1 handlers of the earlier entries,
\* and while entries are still being started no started call has gone
\* beyond its first suspension.
C30_HorizontalStartOrder ==
  strategy = "H" =>
    /\ \A k \in 1..Len(inv) :
         /\ k <= Len(pool)
         /\ inv[k].element = pool[k].element
         /\ inv[k].selector = pool[k].selector
         /\ inv[k].seen = k - 1
    /\ pc = "launch" =>
         /\ Len(inv) = li - 1
         /\ \A k \in 1..Len(inv) : inv[k].st # "resolved" /\ inv[k].hVal = Undefined

\* the handler of the second entry has been started after the synchronous
\* part of the first, which is still pending
C30_Witness ==
  /\ strategy = "H" /\ Len(pool) = 2 /\ Len(inv) = 2
  /\ pool[1] # pool[2]
  /\ inv[1].st = "awaitH" /\ inv[2].seen = 1

\* ------------------------------------------ writes through self (MutSpec)
\* the queries issued after invocation k was made
QueriesAfter(k) == (inv[k].asked + 1)..Len(queries)

\* C31 as stated: every query of a walkVertically call is issued against
\* the scope the configuration held when the call started, also after a
\* handler has written to the scope key.
C31_ScopeExtractedOnce ==
  strategy = "V" => \A i \in 1..Len(queries) : queries[i].scope = MutConfig.scope

\* C31: walkVertically reads the scope from the configuration anew for each
\* selector: once a handler has reassigned the scope key, the queries of
\* the later selectors are issued against the new value, and once it has
\* removed the key, no later selector is queried.
C31_ScopeReadPerSelector ==
  strategy = "V" =>
    \A k \in 1..Len(inv) :
      inv[k].wrote.key = ScopeKey =>
        \A i \in QueriesAfter(k) :
          inv[k].wrote.op = "set" /\ queries[i].scope = "replaced"

\* the handler of a match of ".a" has reassigned the scope, and ".b" has
\* been queried since
C31_Witness ==
  /\ strategy = "V" /\ Len(inv) >= 1 /\ Len(queries) >= 2
  /\ inv[1].wrote = [op |-> "set", key |-> ScopeKey]
  /\ queries[2].selector = ".b" /\ queries[2].scope = "replaced"

\* C32 as stated: in both strategies a failure of a handler is handed to the
\* exception handler the configuration held when the call started, also
\* after a handler has replaced or removed the entry.
C32_HandlerHeldAtStart ==
  \A k \in 1..Len(inv) :
    inv[k].hErr # NoError => inv[k].ehFn = MutConfig.eh /\ inv[k].ehCalls = 1

\* C32: in both strategies the exception handler invoked for a failing
\* match is the one the configuration holds at the moment the failure is
\* caught: a replacement made by a handler before that moment is what is
\* called, and after a removal nothing is called and the attempt throws a
\* TypeError.
C32_HandlerReadWhenCaught ==
  [][\A k \in 1..Len(inv') :
       ((k > Len(inv) \/ inv[k].hErr = NoError) /\ inv'[k].hErr # NoError) =>
         /\ inv'[k].ehFn = o.eh
         /\ inv'[k].ehCalls = IF o.eh = "none" THEN 0 ELSE 1
         /\ o.eh = "none" => inv'[k].st = "failed" /\ inv'[k].failure = TypeError]_vars

\* under walkHorizontally a handler has replaced the exception handler, and
\* the replacement has recovered a failure caught afterwards
C32_Witness ==
  /\ strategy = "H"
  /\ \E j, k \in 1..Len(inv) :
       /\ inv[j].wrote = [op |-> "set", key |-> HandlerKey]
       /\ inv[k].hErr \in Errors /\ inv[k].ehFn = "user2"
       /\ inv[k].st = "resolved" /\ inv[k].ehVal \in Values

\* C33: a write a handler makes to the configuration is visible to the
\* handlers invoked afterwards: under walkVertically, once a handler has
\* replaced the handler of a selector, every match processed later under
\* that selector is handed to the replacement, and the self of every later
\* invocation, which is the configuration itself, shows the write.
C33_MutationVisibleLater ==
  strategy = "V" =>
    \A j, k \in 1..Len(inv) :
      (j < k /\ inv[j].wrote # NoWrite) =>
        /\ inv[k].ctx.self = "o"
        /\ inv[k].shown = Written(inv[j].shown, inv[j].wrote)
        /\ (inv[j].wrote.op = "set" /\ inv[k].selector = inv[j].wrote.key) =>
             inv[k].fn = "user2"

\* the handler of the match of ".a" has replaced the handler of ".b", whose
\* match has then been handed to the replacement
C33_Witness ==
  /\ strategy = "V" /\ Len(inv) = 2
  /\ inv[1].selector = ".a" /\ inv[1].wrote = [op |-> "set", key |-> ".b"]
  /\ inv[2].selector = ".b" /\ inv[2].fn = "user2"
  /\ inv[2].shown.fns[".b"] = "user2"

\* the place of a key in the selector array the call built when it started
PlaceOf(key) ==
  CHOOSE i \in 1..Len(SelectorsOf(MutConfig)) : SelectorsOf(MutConfig)[i] = key

StartKeys == {SelectorsOf(MutConfig)[i] : i \in 1..Len(SelectorsOf(MutConfig))}

\* C34: in either strategy the selectors a call traverses, and their order,
\* are fixed when the call starts: only keys the configuration had then are
\* queried and invoked, in their order, a key a handler adds during the
\* call is never queried nor its value invoked, and a key a handler removes
\* is still traversed.
C34_SelectorsFixedAtStart ==
  /\ pc # "start" => selectors = SelectorsOf(MutConfig)
  /\ \A i \in 1..Len(queries) : queries[i].selector \in StartKeys
  /\ \A k \in 1..Len(inv) : inv[k].selector \in StartKeys
  /\ \A i, j \in 1..Len(queries) :
       i < j => PlaceOf(queries[i].selector) < PlaceOf(queries[j].selector)
  /\ (pc = "resolved" /\ o.plan.key # ScopeKey) =>
       {queries[i].selector : i \in 1..Len(queries)} = StartKeys

\* a handler has added the key ".c" and the call has ended after the three
\* queries of the keys it started with
C34_Witness ==
  /\ pc = "resolved" /\ Len(queries) = 3
  /\ \E k \in 1..Len(inv) : inv[k].wrote = [op |-> "set", key |-> ".c"]
  /\ o.keys = <<ScopeKey, ".a", ".b", HandlerKey, ".c">>
  /\ o.fns[".c"] = "user2"

\* ------------------------------- a selector bound to a non-function
\* the invocations made, as (element, selector) pairs
Invoked == [k \in 1..Len(inv) |-> [element |-> inv[k].element, selector |-> inv[k].selector]]

\* C35: a selector whose value is not callable fails only when it is called,
\* once per match: each of its matches raises a TypeError that is handed to
\* the exception handler as any handler failure is, a call that ends has
\* made one such attempt per match (none when there is no match), and the
\* call does not reject unless a query or an exception handler fails.
C35_NotCallableFailsPerMatch ==
  /\ \A k \in 1..Len(inv) :
       inv[k].selector = ".a" =>
         /\ inv[k].fn = "notCallable"
         /\ inv[k].hErr = TypeError
         /\ inv[k].ehCalls = 1 /\ inv[k].ehErr = TypeError /\ inv[k].ehFn = "user"
         /\ inv[k].st = "resolved" => inv[k].ehVal \in Values
  /\ pc = "resolved" =>
       /\ Invoked = MatchesOf(queries)
       /\ \A k \in 1..Len(inv) : inv[k].st = "resolved"
       /\ strategy = "H" => \A k \in 1..Len(inv) : ret.items[k] = SettledValue(k)
  /\ pc = "rejected" => QueryFailed \/ \E k \in 1..Len(inv) : inv[k].failure # NoError

\* walkVertically has ended after two matches of the selector bound to a
\* non-function, the exception handler having resolved for each
C35_Witness ==
  /\ strategy = "V" /\ pc = "resolved" /\ Len(inv) = 2
  /\ \A k \in 1..2 : inv[k].fn = "notCallable" /\ inv[k].st = "resolved"

\* C36: walkVertically queries lazily: the query of a selector is issued
\* only after every handler and exception-handler invocation for the
\* earlier selectors has settled, so a write such an invocation made to the
\* scope is what the later queries are issued against.
C36_VerticalQueriesLazily ==
  strategy = "V" =>
    /\ pc = "query" => \A k \in 1..Len(inv) : inv[k].st = "resolved"
    /\ \A k \in 1..Len(inv) : \A i \in QueriesAfter(k) :
         /\ inv[k].st = "resolved"
         /\ inv[k].wrote # NoWrite =>
              queries[i].scope = Written(inv[k].shown, inv[k].wrote).scope

\* the handler of the match of ".a" has reassigned the scope and failed, the
\* exception handler has recovered, and only then has ".b" been queried
C36_Witness ==
  /\ strategy = "V" /\ Len(inv) = 1 /\ Len(queries) = 2
  /\ inv[1].wrote = [op |-> "set", key |-> ScopeKey]
  /\ inv[1].hErr \in Errors /\ inv[1].ehCalls = 1 /\ inv[1].st = "resolved"
  /\ queries[2].scope = "replaced"

\* C37: under walkVertically, when the query of a later selector fails, the
\* handlers of all matches of the earlier selectors have been invoked and
\* have settled, what they wrote to the configuration is still there, and
\* the call rejects with the failure of the query, resolving to nothing.
C37_LateQueryFailure ==
  (strategy = "V" /\ QueryFailed) =>
    /\ pc = "rejected" /\ err = "QueryError" /\ ret = NoRet
    /\ Invoked = MatchesOf(queries)
    /\ \A k \in 1..Len(inv) :
         /\ inv[k].st = "resolved"
         /\ inv[k].wrote # NoWrite => o = Written(inv[k].shown, inv[k].wrote)

\* the handler of the match of ".a" has written to the configuration and
\* settled, and the query of ".b" has thrown
C37_Witness ==
  /\ strategy = "V" /\ pc = "rejected" /\ Len(queries) = 2 /\ Len(inv) = 1
  /\ queries[2].selector = ".b" /\ queries[2].result.kind = "throws"
  /\ inv[1].wrote = [op |-> "set", key |-> ".c"] /\ inv[1].hVal \in Values
====
